---- MODULE Spec2Model ----
(***************************************************************************)
(* Production dependency resolution of the Masterplan Tycoon calculator:   *)
(* the dependency tracer of src/game_calculation/dependency_analyzer.py.   *)
(***************************************************************************)
EXTENDS Integers, Sequences, FiniteSets, TLC

\* ------------------------------------------------------------------ bounds
\* most edges of a production graph handed to the tracer
MaxEdges == 3
\* most rows of inputs.csv, and of outputs.csv
MaxCsvRows == 2
\* most rows of the table building_inputs, and of building_outputs
MaxRelations == 3
\* most input rows, and most output rows, of a catalog that is built
MaxRecipeRows == 2
\* largest quantity of a recipe row
MaxQty == 2
\* largest quantity asked of a target resource
MaxNeed == 3
\* largest max_depth argument tried
MaxDepthArg == 2
\* most nodes of one building type in a save game
MaxObserved == 2
\* largest building count handed to check_building_count
MaxCount == 51
\* most rows of inputs.csv handed to create_building_inputs_table
MaxInputRows == 3
\* most calls that run against one graph snapshot at a time
MaxCalls == 2
\* largest iteration budget a trace is held against
MaxBudget == 2

\* ---------------------------------------------------------------- universe
Resources == {"A", "B", "C", "D"}
Buildings == {"mkA", "mkB", "mkC", "mkD"}
Pairs == Resources \X Resources

VARIABLES
    graph,            \* the nx.DiGraph handed to trace_resource_dependencies
    target_resource,  \* its target_resource argument
    max_depth,        \* its max_depth argument
    stack,            \* the call stack of dfs_dependencies, top first
    visited,          \* the closure's visited set
    dependencies,     \* the closure's defaultdict(set): depth -> entries
    returned,         \* the calls that took the early return of line 100
    pc,               \* where the running call is: "trace", "tree", ... "done"
    buildings_df,     \* build_supply_chain_tree: buid -> category
    inputs_df,        \* build_supply_chain_tree: rows <<buid, input>>
    outputs_df,       \* build_supply_chain_tree: rows <<buid, output>>
    target_category,  \* build_supply_chain_tree: the category asked for
    chain_tree,       \* build_supply_chain_tree: the dictionary returned
    resources,        \* DataValidator: the resources table, in row order
    building_inputs,  \* DataValidator: rows <<building_id, resource_id>>
    building_outputs, \* DataValidator: rows <<building_id, resource_id>>
    G,                \* validate_resource_chains: its nx.DiGraph
    cycles,           \* validate_resource_chains: issues['circular_dependencies']
    isolated_resources, \* validate_resource_chains: warnings['isolated_resources']
    no_producers,     \* validate_resource_chains: stats['raw_materials']
    production_data,  \* build_production_graph: the rows of its query
    builds,           \* build_production_graph: per call, G, building_info
                      \* and the rows its loop has still to take
    building_info,    \* calculate_production_requirements: its argument
    target_resources, \* calculate_production_requirements: resource -> quantity
    targets_left,     \* the targets the loop of line 136 has still to take
    building_requirements, \* the defaultdict(int) that is returned
    printed,          \* the per-target lines that line 154 prints
    save_file,        \* CalculationSafetyChecker: what save_file_path holds
    safety_bounds,    \* CalculationSafetyChecker: self.safety_bounds
    check_result,     \* the outcome of the latest call of a check_ method
    self_consumers,   \* detect_calculation_breakers: breakers['self_consumers']
    rel_rows,         \* create_building_inputs_table: the rows of inputs_df
    rows_done,        \* how many of them the loop of line 81 has taken
    inputs_data,      \* its list inputs_data
    missing_buildings, \* its set missing_buildings
    missing_resources, \* its set missing_resources
    inputs_table,     \* the committed rows of the table building_inputs
    table_printed,    \* the warning lines of lines 115-118 that were printed
    table_raised,     \* the exception that left the function, if one did
    snapshot,         \* the graph and building_info several calls are given
    calls,            \* those calls: the arguments and the locals of each
    catalog,          \* the relation tables a graph and its catalog are built of
    later_tables,     \* main of add_relationship_tables: the tables built
                      \* after building_inputs
    plan_result       \* the statuses the checks give one vector of counts

traceVars == <<graph, target_resource, stack, visited, dependencies, returned>>
treeVars == <<buildings_df, inputs_df, outputs_df, target_category, chain_tree>>
validatorVars == <<resources, building_inputs, building_outputs, G, cycles,
                   isolated_resources, no_producers>>
buildVars == <<production_data, builds>>
estimateVars == <<building_info, target_resources, targets_left,
                  building_requirements, printed>>
safetyVars == <<save_file, safety_bounds, check_result>>
breakerVars == <<self_consumers>>
tableVars == <<rel_rows, rows_done, inputs_data, missing_buildings,
               missing_resources, inputs_table, table_printed, table_raised>>
sessionVars == <<snapshot, calls>>
lastVars == <<catalog, later_tables, plan_result>>
laterVars == <<safetyVars, breakerVars, tableVars, sessionVars, lastVars>>
vars == <<traceVars, treeVars, validatorVars, buildVars, estimateVars,
          laterVars, max_depth, pc>>
notTraceVars == <<treeVars, validatorVars, buildVars, estimateVars, laterVars>>
notTreeVars == <<traceVars, validatorVars, buildVars, estimateVars, laterVars>>
notValidatorVars == <<traceVars, treeVars, buildVars, estimateVars, laterVars,
                      max_depth>>
notBuildVars == <<traceVars, treeVars, validatorVars, estimateVars, laterVars,
                  max_depth>>
notEstimateVars == <<traceVars, treeVars, validatorVars, buildVars, laterVars,
                     max_depth>>
firstVars == <<traceVars, treeVars, validatorVars, buildVars, estimateVars,
               max_depth>>
notSafetyVars == <<firstVars, breakerVars, tableVars, sessionVars, lastVars>>
notBreakerVars == <<traceVars, treeVars, validatorVars, buildVars, estimateVars,
                    safetyVars, tableVars, sessionVars, lastVars, max_depth>>
notTableVars == <<firstVars, safetyVars, breakerVars, sessionVars, lastVars>>
notSessionVars == <<firstVars, safetyVars, breakerVars, tableVars, lastVars>>

\* the value of a variable no call is using
None == "None"
TraceIdle ==
    /\ graph = None /\ target_resource = None /\ stack = <<>>
    /\ visited = {} /\ dependencies = <<>> /\ returned = {}
TreeIdle ==
    /\ buildings_df = None /\ inputs_df = None /\ outputs_df = None
    /\ target_category = None /\ chain_tree = None
ValidatorIdle ==
    /\ resources = None /\ building_inputs = None /\ building_outputs = None
    /\ G = None /\ cycles = None /\ isolated_resources = None
    /\ no_producers = None
BuildIdle == production_data = None /\ builds = None
EstimateIdle ==
    /\ building_info = None /\ target_resources = None /\ targets_left = None
    /\ building_requirements = None /\ printed = None
SafetyIdle == save_file = None /\ safety_bounds = None /\ check_result = None
BreakerIdle == self_consumers = None
TableIdle ==
    /\ rel_rows = None /\ rows_done = None /\ inputs_data = None
    /\ missing_buildings = None /\ missing_resources = None
    /\ inputs_table = None /\ table_printed = None /\ table_raised = None
SessionIdle == snapshot = None /\ calls = None
LastIdle == catalog = None /\ later_tables = None /\ plan_result = None
LaterIdle ==
    SafetyIdle /\ BreakerIdle /\ TableIdle /\ SessionIdle /\ LastIdle
FirstIdle ==
    /\ TraceIdle /\ TreeIdle /\ ValidatorIdle /\ BuildIdle /\ EstimateIdle
    /\ max_depth = 0

\* graph.predecessors(resource)
predecessors(g, resource) == {u \in Resources : <<u, resource>> \in DOMAIN g}

\* graph.get_edge_data(producer_resource, resource)
get_edge_data(g, u, v) == g[<<u, v>>]

\* the entry filed one level too deep
DepAddBelow(deps, depth, entry) ==
    [d \in DOMAIN deps \cup {depth + 1} |->
        IF d = depth + 1
        THEN (IF d \in DOMAIN deps THEN deps[d] ELSE {}) \cup {entry}
        ELSE deps[d]]

\* dependencies[depth].add(entry) on a defaultdict(set)
DepAdd(deps, depth, entry) ==
    [d \in DOMAIN deps \cup {depth} |->
        IF d = depth
        THEN (IF d \in DOMAIN deps THEN deps[d] ELSE {}) \cup {entry}
        ELSE deps[d]]

\* the building whose recipe makes a resource in the graphs tried below
Maker == [r \in Resources |-> "mk" \o r]

\* the graphs the tracer is tried on: every set of at most MaxEdges edges,
\* as build_production_graph yields it when each resource is made by one
\* building of its own, whose inputs are the resource's predecessors
TraceGraphs ==
    {[e \in E |-> [building |-> Maker[e[2]]]] :
        E \in {S \in SUBSET Pairs : Cardinality(S) <= MaxEdges}}

\* one activation record of dfs_dependencies(resource, depth, path)
Frame(resource, depth, path) ==
    [resource |-> resource, depth |-> depth, path |-> path,
     at |-> "enter", producers |-> {}]

\* trace_resource_dependencies(graph, target_resource, max_depth) is called
TraceInit ==
    /\ graph \in TraceGraphs
    /\ target_resource \in Resources
    /\ max_depth \in 0..MaxDepthArg
    /\ stack = <<Frame(target_resource, 0, <<>>)>>
    /\ visited = {}
    /\ dependencies = <<>>
    /\ returned = {}
    /\ pc = "trace"
    /\ TreeIdle /\ ValidatorIdle /\ BuildIdle /\ EstimateIdle /\ LaterIdle

Top == Head(stack)

\* the depth test off by one
RefusedLate(f) == f.resource \in visited \/ f.depth > max_depth + 1

\* line 99: if resource in visited or depth > max_depth
Refused(f) == f.resource \in visited \/ f.depth > max_depth

\* lines 99-100: the early return
DfsRefuse ==
    /\ pc = "trace" /\ stack # <<>> /\ Top.at = "enter"
    /\ Refused(Top)
    /\ returned' = returned \cup
          {[resource |-> Top.resource, depth |-> Top.depth, path |-> Top.path,
            seen |-> Top.resource \in visited]}
    /\ stack' = Tail(stack)
    /\ UNCHANGED <<graph, target_resource, max_depth, visited, dependencies, pc, notTraceVars>>

\* a raw resource recorded without being put into visited
DfsRawForgetful ==
    /\ pc = "trace" /\ stack # <<>> /\ Top.at = "enter"
    /\ ~Refused(Top)
    /\ predecessors(graph, Top.resource) = {}
    /\ dependencies' = DepAdd(dependencies, Top.depth, <<Top.resource, "raw">>)
    /\ stack' = Tail(stack)
    /\ UNCHANGED <<graph, target_resource, max_depth, visited, returned, pc,
                   notTraceVars>>

\* lines 102-110: a resource without producers
DfsRaw ==
    /\ pc = "trace" /\ stack # <<>> /\ Top.at = "enter"
    /\ ~Refused(Top)
    /\ predecessors(graph, Top.resource) = {}
    /\ visited' = visited \cup {Top.resource}
    /\ dependencies' = DepAdd(dependencies, Top.depth, <<Top.resource, "raw">>)
    /\ stack' = Tail(stack)
    /\ UNCHANGED <<graph, target_resource, max_depth, returned, pc, notTraceVars>>

\* lines 102-112: a resource with producers enters the loop of line 113
DfsExpand ==
    /\ pc = "trace" /\ stack # <<>> /\ Top.at = "enter"
    /\ ~Refused(Top)
    /\ predecessors(graph, Top.resource) # {}
    /\ visited' = visited \cup {Top.resource}
    /\ stack' = <<[Top EXCEPT !.at = "loop",
                               !.producers = predecessors(graph, Top.resource)]>>
                 \o Tail(stack)
    /\ UNCHANGED <<graph, target_resource, max_depth, dependencies, returned, pc, notTraceVars>>

\* a loop that takes the same producer again and again
RemainingStuck(producers, producer_resource) == producers

\* line 113: the producers the for loop has still to take after this one
Remaining(producers, producer_resource) == producers \ {producer_resource}

\* lines 113-124: one iteration of the loop over the producers
DfsProducer ==
    /\ pc = "trace" /\ stack # <<>> /\ Top.at = "loop"
    /\ \E producer_resource \in Top.producers :
         LET building == get_edge_data(graph, producer_resource, Top.resource).building
         IN /\ dependencies' = DepAdd(dependencies, Top.depth, <<Top.resource, building>>)
            /\ stack' = <<Frame(producer_resource, Top.depth + 1,
                                Append(Top.path, Top.resource)),
                          [Top EXCEPT !.producers = Remaining(@, producer_resource)]>>
                        \o Tail(stack)
    /\ UNCHANGED <<graph, target_resource, max_depth, visited, returned, pc, notTraceVars>>

\* line 113 exhausted: dfs_dependencies returns
DfsReturn ==
    /\ pc = "trace" /\ stack # <<>> /\ Top.at = "loop"
    /\ Top.producers = {}
    /\ stack' = Tail(stack)
    /\ UNCHANGED <<graph, target_resource, max_depth, visited, dependencies,
                   returned, pc, notTraceVars>>

\* line 127: return dependencies
TraceReturn ==
    /\ pc = "trace" /\ stack = <<>>
    /\ pc' = "done"
    /\ UNCHANGED <<graph, target_resource, max_depth, stack, visited,
                   dependencies, returned, notTraceVars>>

TraceNext ==
    \/ DfsRefuse \/ DfsRaw \/ DfsExpand \/ DfsProducer \/ DfsReturn
    \/ TraceReturn

SpecTrace == TraceInit /\ [][TraceNext]_vars

\* the interpreter runs the call to its end: a step that can be taken is taken
SpecTraceFair == SpecTrace /\ WF_vars(TraceNext)

\* lines 95-124 as one function: the closure states, [visited, dependencies],
\* that a call dfs_dependencies(resource, depth, _) entered in state st may
\* leave behind, one for every order in which the loops of line 113 may take
\* the producers
RECURSIVE dfs_dependencies(_, _, _, _, _), dfs_loop(_, _, _, _, _, _)
dfs_dependencies(g, bound, resource, depth, st) ==
    IF resource \in st.visited \/ depth > bound THEN {st}
    ELSE LET seen == [st EXCEPT !.visited = @ \cup {resource}]
             producers == predecessors(g, resource)
         IN IF producers = {}
            THEN {[seen EXCEPT !.dependencies =
                                  DepAdd(@, depth, <<resource, "raw">>)]}
            ELSE dfs_loop(g, bound, resource, depth, producers, seen)
dfs_loop(g, bound, resource, depth, producers, st) ==
    IF producers = {} THEN {st}
    ELSE UNION {
           UNION {dfs_loop(g, bound, resource, depth, producers \ {p}, after) :
                    after \in dfs_dependencies(g, bound, p, depth + 1,
                        [st EXCEPT !.dependencies =
                            DepAdd(@, depth,
                                   <<resource, get_edge_data(g, p, resource).building>>)])} :
           p \in producers}

\* lines 88-127 as one function: what trace_resource_dependencies may return
trace_resource_dependencies(g, target, bound) ==
    {st.dependencies :
        st \in dfs_dependencies(g, bound, target, 0,
                                [visited |-> {}, dependencies |-> <<>>])}

\* the graphs in which a resource has a short and a long producer path to
\* another: every set of these edges, labelled as in TraceGraphs
ShortcutPairs ==
    {<<"A", "C">>, <<"B", "C">>, <<"A", "B">>, <<"D", "A">>, <<"D", "B">>}
ShortcutGraphs ==
    {[e \in E |-> [building |-> Maker[e[2]]]] : E \in SUBSET ShortcutPairs}

\* trace_resource_dependencies(graph, target_resource, max_depth) is called
\* on one of them
ShortcutInit ==
    /\ graph \in ShortcutGraphs
    /\ target_resource \in Resources
    /\ max_depth \in 0..MaxDepthArg
    /\ stack = <<Frame(target_resource, 0, <<>>)>>
    /\ visited = {}
    /\ dependencies = <<>>
    /\ returned = {}
    /\ pc = "trace"
    /\ TreeIdle /\ ValidatorIdle /\ BuildIdle /\ EstimateIdle /\ LaterIdle

SpecShortcut == ShortcutInit /\ [][TraceNext]_vars

\* ------------------------------------------- build_supply_chain_tree
\* src/save_game_analysis.py: the category tree of the save-game dashboard
Buids == {"u1", "u2"}
Categories == {"c1", "c2"}
ChainResources == {"A", "B", "C"}

\* line 147: buildings_df[buildings_df['category'] == target_category]
category_buildings(bdf, category) == {u \in DOMAIN bdf : bdf[u] = category}

\* lines 157-175: the inputs of the buildings of the category
category_inputs(bdf, idf, category) ==
    {row[2] : row \in {x \in idf : x[1] \in category_buildings(bdf, category)}}

\* lines 161-175: building_details (the plan, tier and quantity columns
\* are copied through and decide nothing)
building_details(bdf, idf, category) ==
    {[buid |-> u, inputs |-> {row[2] : row \in {x \in idf : x[1] = u}}] :
        u \in category_buildings(bdf, category)}

\* lines 186-191: the categories of the buildings that output the resource
producer_categories(bdf, odf, input_resource) ==
    {bdf[row[1]] : row \in {x \in odf : x[2] = input_resource /\ x[1] \in DOMAIN bdf}}

\* the dictionary of one node; line 200 sets produces_resource on a child
TreeNode(category, depth, buildings, inputs, is_raw, note, produces) ==
    [category |-> category, depth |-> depth, buildings |-> buildings,
     inputs |-> inputs, is_raw |-> is_raw, note |-> note,
     produces_resource |-> produces]

\* the depth test of the other tracer, which lets depth max_depth through
AtMaxDepthLate(current_depth, maxd) == current_depth > maxd

\* line 143: the depth test
AtMaxDepth(current_depth, maxd) == current_depth >= maxd

\* lines 138-219, with produces the resource line 200 writes into the result
RECURSIVE build_supply_chain_tree(_, _, _, _, _, _, _)
build_supply_chain_tree(category, bdf, idf, odf, maxd, current_depth, produces) ==
    IF AtMaxDepth(current_depth, maxd)
    THEN TreeNode(category, current_depth, {}, {}, FALSE, "Max depth reached", produces)
    ELSE IF category_buildings(bdf, category) = {}
    THEN TreeNode(category, current_depth, {}, {}, TRUE, "", produces)
    ELSE TreeNode(category, current_depth, building_details(bdf, idf, category),
           UNION {
             IF \E x \in odf : x[2] = input_resource
             THEN {build_supply_chain_tree(producer_category, bdf, idf, odf, maxd,
                                           current_depth + 1, input_resource) :
                     producer_category \in
                        producer_categories(bdf, odf, input_resource) \ {category}}
             ELSE {TreeNode(input_resource, current_depth + 1, {}, {}, TRUE, "",
                            input_resource)}
             : input_resource \in category_inputs(bdf, idf, category)},
           FALSE, "", produces)

CsvRows == {S \in SUBSET (Buids \X ChainResources) : Cardinality(S) <= MaxCsvRows}

\* the dashboard is about to call build_supply_chain_tree
TreeInit ==
    /\ buildings_df \in UNION {[U -> Categories] : U \in SUBSET Buids}
    /\ inputs_df \in CsvRows
    /\ outputs_df \in CsvRows
    /\ target_category \in Categories
    /\ max_depth \in 0..MaxDepthArg
    /\ chain_tree = None
    /\ pc = "tree"
    /\ TraceIdle /\ ValidatorIdle /\ BuildIdle /\ EstimateIdle /\ LaterIdle

\* the call of build_supply_chain_tree(target_category, ..., max_depth)
BuildSupplyChainTree ==
    /\ pc = "tree"
    /\ chain_tree' = build_supply_chain_tree(target_category, buildings_df,
                         inputs_df, outputs_df, max_depth, 0, "")
    /\ pc' = "tree_done"
    /\ UNCHANGED <<buildings_df, inputs_df, outputs_df, target_category,
                   max_depth, notTreeVars>>

\* both tracers of the repository, each called on its own
DepthInit == TraceInit \/ TreeInit
DepthNext == TraceNext \/ BuildSupplyChainTree
SpecDepth == DepthInit /\ [][DepthNext]_vars

\* ------------------------------------- DataValidator.validate_resource_chains
\* src/data_exploration/data_validator.py
BuildingIds == {"b1", "b2", "b3"}

\* the resources tables tried: one map, and two maps that share a name
ResourceTables ==
    { <<[name |-> "A", map_name |-> "m1"], [name |-> "B", map_name |-> "m1"],
        [name |-> "C", map_name |-> "m1"]>>,
      <<[name |-> "A", map_name |-> "m1"], [name |-> "B", map_name |-> "m1"],
        [name |-> "A", map_name |-> "m2"]>> }

SeqRange(s) == {s[i] : i \in DOMAIN s}

\* the elements of a list without the repetitions, first occurrences kept
RECURSIVE Unique(_)
Unique(s) ==
    IF s = <<>> THEN <<>>
    ELSE LET front == Unique(SubSeq(s, 1, Len(s) - 1))
         IN IF s[Len(s)] \in SeqRange(front) THEN front
            ELSE Append(front, s[Len(s)])

\* lines 101-102: G.nodes() after the loop over the resources table
ValidatorNodes(res) == Unique([i \in DOMAIN res |-> res[i].name])

\* lines 105-120: production_data, the join of the two relation tables
ProductionData(res, bi, bo) ==
    {[input_resource |-> res[i[2]].name, output_resource |-> res[o[2]].name,
      building_name |-> i[1]] :
        <<i, o>> \in {x \in bi \X bo : x[1][1] = x[2][1]}}

\* the edge written the wrong way round
ReversedEdge(row) == <<row.output_resource, row.input_resource>>

\* lines 123-125: the edge G.add_edge makes of a row
ValidatorEdge(row) == <<row.input_resource, row.output_resource>>

\* lines 122-130: the edges of G (the rate and quantity columns ride along
\* as attributes and are not read by this method)
ValidatorEdges(res, bi, bo) == {ValidatorEdge(row) : row \in ProductionData(res, bi, bo)}

\* the rotations of a closed walk
Rotations(s) ==
    {[i \in 1..Len(s) |-> s[((i + k - 1) % Len(s)) + 1]] : k \in 0..(Len(s) - 1)}

\* the lists of distinct nodes
DistinctSeqs(S) ==
    UNION {{s \in [1..n -> S] : \A i, j \in 1..n : i # j => s[i] # s[j]} :
             n \in 1..Cardinality(S)}

\* a list of nodes each joined to the next by an edge, the last to the first
ClosesOn(E, s) == \A i \in 1..Len(s) : <<s[i], s[(i % Len(s)) + 1]>> \in E

\* a set as a list, in the order the library happens to yield it
RECURSIVE SetToSeq(_)
SetToSeq(S) ==
    IF S = {} THEN <<>>
    ELSE LET x == CHOOSE y \in S : TRUE IN <<x>> \o SetToSeq(S \ {x})

\* line 134: list(nx.simple_cycles(G)): every elementary circuit, self-loops
\* included, once, from a start node of the library's choosing
simple_cycles(nodes, E) ==
    SetToSeq({CHOOSE r \in Rotations(s) : TRUE :
                s \in {x \in DistinctSeqs(nodes) : ClosesOn(E, x)}})

\* the validator has loaded its tables (load_data)
ValidatorInit ==
    /\ resources \in ResourceTables
    /\ building_inputs \in {S \in SUBSET (BuildingIds \X DOMAIN resources) :
                                Cardinality(S) <= MaxRelations}
    /\ building_outputs \in {S \in SUBSET (BuildingIds \X DOMAIN resources) :
                                 Cardinality(S) <= MaxRelations}
    /\ G = None /\ cycles = None /\ isolated_resources = None
    /\ no_producers = None
    /\ max_depth = 0
    /\ pc = "validate"
    /\ TraceIdle /\ TreeIdle /\ BuildIdle /\ EstimateIdle /\ LaterIdle

\* line 154: the test that lists a resource as isolated
IsIsolated(in_deg, out_deg) == in_deg = 0 /\ out_deg = 0

\* the test that takes every resource without producers for a raw material
IsRawMaterialLoose(in_degree, out_degree) == in_degree = 0

\* line 165: the test that lists a node as a raw material
IsRawMaterial(in_degree, out_degree) == in_degree = 0 /\ out_degree > 0

\* lines 93-171: validate_resource_chains
ValidateResourceChains ==
    /\ pc = "validate"
    /\ LET nodes == ValidatorNodes(resources)
           E == ValidatorEdges(resources, building_inputs, building_outputs)
           in_deg(r) == Cardinality({u \in SeqRange(nodes) : <<u, r>> \in E})
           out_deg(r) == Cardinality({v \in SeqRange(nodes) : <<r, v>> \in E})
       IN /\ G' = [nodes |-> nodes, edges |-> E]
          /\ cycles' = simple_cycles(SeqRange(nodes), E)
          /\ isolated_resources' =
                SelectSeq([i \in DOMAIN resources |-> resources[i].name],
                          LAMBDA r : IsIsolated(in_deg(r), out_deg(r)))
          /\ no_producers' =
                SelectSeq(nodes, LAMBDA r : IsRawMaterial(in_deg(r), out_deg(r)))
    /\ pc' = "validated"
    /\ UNCHANGED <<resources, building_inputs, building_outputs, notValidatorVars>>

SpecValidator == ValidatorInit /\ [][ValidateResourceChains]_vars

\* ------------------------------- DataValidator.detect_calculation_breakers
\* src/data_exploration/data_validator.py, lines 271-283
\* the validator is about to look for calculation breakers in its database
BreakersInit ==
    /\ resources \in ResourceTables
    /\ building_inputs \in {S \in SUBSET (BuildingIds \X DOMAIN resources) :
                                Cardinality(S) <= MaxRelations}
    /\ building_outputs \in {S \in SUBSET (BuildingIds \X DOMAIN resources) :
                                 Cardinality(S) <= MaxRelations}
    /\ G = None /\ cycles = None /\ isolated_resources = None
    /\ no_producers = None
    /\ self_consumers = None
    /\ max_depth = 0
    /\ pc = "detect"
    /\ TraceIdle /\ TreeIdle /\ BuildIdle /\ EstimateIdle /\ SafetyIdle
    /\ TableIdle /\ SessionIdle /\ LastIdle

\* lines 273-280: the rows of the query: one for each building name and
\* resource name that a row of building_inputs and a row of building_outputs
\* of one building, naming one resource id, give; DISTINCT drops the repeats
SelfConsumers(res, bi, bo) ==
    {[building |-> i[1], resource |-> res[i[2]].name] :
        <<i, o>> \in {x \in bi \X bo : x[1][1] = x[2][1] /\ x[1][2] = x[2][2]}}

\* lines 271-283: the self-consumer check of detect_calculation_breakers
DetectCalculationBreakers ==
    /\ pc = "detect"
    /\ self_consumers' =
          SelfConsumers(resources, building_inputs, building_outputs)
    /\ pc' = "detected"
    /\ UNCHANGED notBreakerVars

SpecBreakers == BreakersInit /\ [][DetectCalculationBreakers]_vars

\* ------------------------------------------ create_building_inputs_table
\* src/data_processing/add_relationship_tables.py, lines 62-120
\* lines 37-40: building_lookup, from the buildings of the database: the
\* Mill of two maps
BuildingLookup == (<<"Mill", "m1">> :> 1) @@ (<<"Mill", "m2">> :> 2)
\* lines 49-52: resource_lookup, from the resources of the database: A of
\* map m1 and B of map m2
ResourceLookup == (<<"A", "m1">> :> 1) @@ (<<"B", "m2">> :> 2)

\* the rows inputs.csv may hold: the Hut is a building of no map
RelationRows ==
    [building_name : {"Mill", "Hut"}, map_name : {"m1", "m2"},
     input_resource : {"A", "B"}, input_resource_qty : {1, 2}]

\* main is about to call create_building_inputs_table (line 325)
TableInit ==
    /\ rel_rows \in UNION {[1..n -> RelationRows] : n \in 0..MaxInputRows}
    /\ rows_done = 0
    /\ inputs_data = <<>>
    /\ missing_buildings = {}
    /\ missing_resources = {}
    /\ inputs_table = {}
    /\ table_printed = {}
    /\ table_raised = None
    /\ pc = "table_rows"
    /\ FirstIdle /\ SafetyIdle /\ BreakerIdle /\ SessionIdle /\ LastIdle

\* lines 81-102: one row of the loop over inputs_df
TableRow ==
    /\ pc = "table_rows" /\ rows_done < Len(rel_rows)
    /\ LET row == rel_rows[rows_done + 1]
           building_key == <<row.building_name, row.map_name>>
           resource_key == <<row.input_resource, row.map_name>>
       IN IF building_key \notin DOMAIN BuildingLookup
          THEN /\ missing_buildings' = missing_buildings \cup {building_key}
               /\ UNCHANGED <<missing_resources, inputs_data>>
          ELSE IF resource_key \notin DOMAIN ResourceLookup
          THEN /\ missing_resources' = missing_resources \cup {resource_key}
               /\ UNCHANGED <<missing_buildings, inputs_data>>
          ELSE /\ inputs_data' =
                     Append(inputs_data,
                            <<BuildingLookup[building_key],
                              ResourceLookup[resource_key],
                              row.input_resource_qty>>)
               /\ UNCHANGED <<missing_buildings, missing_resources>>
    /\ rows_done' = rows_done + 1
    /\ UNCHANGED <<rel_rows, inputs_table, table_printed, table_raised, pc,
                   notTableVars>>

\* line 105: list(set(inputs_data)), as a set
Deduplicated(data) == {data[i] : i \in DOMAIN data}
\* lines 65-75 and 107-109: the primary key (building_id, resource_id) refuses
\* the second of two rows of one pair
KeyClash(rows) ==
    \E x, y \in rows : x # y /\ x[1] = y[1] /\ x[2] = y[2]
\* lines 115-118: the warning lines, one for the buildings and one for the
\* resources that were missing
WarningLines(mb, mr) ==
    {[warning |-> "Missing buildings", keys |-> mb] : x \in {1} \cap
        {IF mb # {} THEN 1 ELSE 0}}
    \cup {[warning |-> "Missing resources", keys |-> mr] : x \in {1} \cap
        {IF mr # {} THEN 1 ELSE 0}}

\* lines 104-120: the rows are inserted and committed and the warnings
\* printed; an IntegrityError of executemany leaves the function before the
\* commit and before the prints, and line 345 closes the connection on what
\* was inserted
TableInsert ==
    /\ pc = "table_rows" /\ rows_done = Len(rel_rows)
    /\ IF KeyClash(Deduplicated(inputs_data))
       THEN /\ table_raised' = "IntegrityError"
            /\ pc' = "table_failed"
            /\ UNCHANGED <<inputs_table, table_printed>>
       ELSE /\ inputs_table' = Deduplicated(inputs_data)
            /\ table_printed' = WarningLines(missing_buildings, missing_resources)
            /\ pc' = "table_done"
            /\ UNCHANGED table_raised
    /\ UNCHANGED <<rel_rows, rows_done, inputs_data, missing_buildings,
                   missing_resources, notTableVars>>

TableNext == TableRow \/ TableInsert
SpecTable == TableInit /\ [][TableNext]_vars

\* ------------------------------------------------ build_production_graph
\* src/game_calculation/dependency_analyzer.py, lines 22-86
RecipeBuildings == {"b1", "b2"}
RecipeResources == {"A", "B"}

\* the rows of building_outputs a building and resource can have: quantity,
\* cycle time and the rate column, which the sheet derives from the two or
\* leaves at zero
OutputKinds ==
    {[quantity |-> q, production_time_seconds |-> t,
      output_per_minute |-> (q * 60) \div t] : q \in 1..MaxQty, t \in {30, 60}}
    \cup {[quantity |-> 1, production_time_seconds |-> 60, output_per_minute |-> 0]}

\* a relation table with its primary key (building, resource)
KeyedTables(Values) ==
    UNION {[K -> Values] :
             K \in {S \in SUBSET (RecipeBuildings \X RecipeResources) :
                       Cardinality(S) <= MaxRecipeRows}}

\* lines 27-45: the query; both LEFT JOINs are filtered to rows that have an
\* input and an output
Query(bi, bo) ==
    {[building_name |-> i[1], input_resource |-> i[2], input_qty |-> bi[i],
      output_resource |-> o[2], output_qty |-> bo[o].quantity,
      output_per_minute |-> bo[o].output_per_minute,
      production_time_seconds |-> bo[o].production_time_seconds] :
        <<i, o>> \in {x \in (DOMAIN bi) \X (DOMAIN bo) : x[1][1] = x[2][1]}}

\* d[key] = value on a dictionary
DictSet(d, key, value) ==
    [k \in DOMAIN d \cup {key} |-> IF k = key THEN value ELSE d[k]]

\* lines 66-71: G.add_edge(input_res, output_res, ...)
add_edge(edges, row) ==
    DictSet(edges, <<row.input_resource, row.output_resource>>,
            [building |-> row.building_name, input_qty |-> row.input_qty,
             output_qty |-> row.output_qty,
             production_rate |-> row.output_per_minute,
             production_time |-> row.production_time_seconds])

\* lines 73-83: the entry of the row's building in building_info
StoreBuildingInfo(info, row) ==
    LET old == IF row.building_name \in DOMAIN info
               THEN info[row.building_name]
               ELSE [inputs |-> <<>>, outputs |-> <<>>,
                     production_rate |-> row.output_per_minute,
                     production_time |-> row.production_time_seconds]
    IN DictSet(info, row.building_name,
               [old EXCEPT !.inputs = DictSet(@, row.input_resource, row.input_qty),
                           !.outputs = DictSet(@, row.output_resource, row.output_qty)])

\* lines 48-54: the graph before the loop, its nodes the resources of the rows
NewBuild(rows) ==
    [G |-> [nodes |-> {r.input_resource : r \in rows}
                      \cup {r.output_resource : r \in rows},
            edges |-> <<>>],
     building_info |-> <<>>,
     rows |-> rows]

\* the loop body with add_edge moved under the test of line 74
LoopBodyEdgeOncePerBuilding(b, row) ==
    [G |-> [b.G EXCEPT !.edges = IF row.building_name \in DOMAIN b.building_info
                                 THEN @ ELSE add_edge(@, row)],
     building_info |-> StoreBuildingInfo(b.building_info, row),
     rows |-> b.rows \ {row}]

\* lines 59-83: the body of the loop for one row
LoopBody(b, row) ==
    [G |-> [b.G EXCEPT !.edges = add_edge(@, row)],
     building_info |-> StoreBuildingInfo(b.building_info, row),
     rows |-> b.rows \ {row}]

\* main() is about to call build_production_graph for the first time; the
\* recipes differ in their output rows, every input quantity is one
BuildInit ==
    /\ \E bi \in KeyedTables({1}), bo \in KeyedTables(OutputKinds) :
          production_data = Query(bi, bo)
    /\ builds = <<NewBuild(production_data)>>
    /\ max_depth = 0
    /\ pc = "build"
    /\ TraceIdle /\ TreeIdle /\ ValidatorIdle /\ EstimateIdle /\ LaterIdle

Building == builds[Len(builds)]

\* lines 59-83: the loop takes its next row; ORDER BY b.name leaves the order
\* of the rows of one building name open, and the rows are tried in any order
BuildRow ==
    /\ pc = "build"
    /\ \E row \in Building.rows :
          builds' = [builds EXCEPT ![Len(builds)] = LoopBody(@, row)]
    /\ UNCHANGED <<production_data, pc, notBuildVars>>

\* lines 85-86 and 170: the first call returns and analyze_mission_complexity
\* builds the graph again from the same database
BuildAgain ==
    /\ pc = "build" /\ Building.rows = {} /\ Len(builds) = 1
    /\ builds' = Append(builds, NewBuild(production_data))
    /\ UNCHANGED <<production_data, pc, notBuildVars>>

\* lines 85-86: the second call returns
BuildReturn ==
    /\ pc = "build" /\ Building.rows = {} /\ Len(builds) = 2
    /\ pc' = "built"
    /\ UNCHANGED <<production_data, builds, notBuildVars>>

BuildNext == BuildRow \/ BuildAgain \/ BuildReturn
SpecBuild == BuildInit /\ [][BuildNext]_vars

\* ------------------------------------- calculate_production_requirements
\* src/game_calculation/dependency_analyzer.py, lines 129-157
\* the whole loop of lines 59-83 over the rows in a given order
RECURSIVE BuildOver(_, _)
BuildOver(b, order) ==
    IF order = <<>> THEN b ELSE BuildOver(LoopBody(b, Head(order)), Tail(order))

\* the orders a set of rows can come in
Orders(rows) ==
    {o \in [1..Cardinality(rows) -> rows] : \A i, j \in DOMAIN o : i # j => o[i] # o[j]}

\* the second value build_production_graph can return for a set of rows
BuildingInfos(rows) ==
    {BuildOver(NewBuild(rows), o).building_info : o \in Orders(rows)}

Max(a, b) == IF a >= b THEN a ELSE b

\* int(x) of line 151 for the float x = quantity_needed / output_qty
IntOfQuotient(quantity_needed, output_qty) == quantity_needed \div output_qty

\* the quotient without the floor of one building
BuildingsNeededFloor(quantity_needed, output_qty) ==
    IntOfQuotient(quantity_needed, output_qty)

\* lines 148 and 151: int(max(1, quantity_needed / output_qty))
buildings_needed(quantity_needed, output_qty) ==
    IF quantity_needed <= output_qty THEN 1
    ELSE IntOfQuotient(quantity_needed, output_qty)

\* the requirements of the targets added up
AccumulateSum(old, needed) == old + needed

\* lines 149-152: max(building_requirements[building_name], int(buildings_needed))
Accumulate(old, needed) == Max(old, needed)

\* lines 141 and 145: the buildings the target makes an entry for
Producing(info, resource) ==
    {b \in DOMAIN info : resource \in DOMAIN info[b].outputs
                          /\ info[b].production_rate > 0}

\* analyze_mission_complexity is about to call the estimator (line 197) with
\* the building_info of a build; the input quantities, which the estimator
\* does not read, are all one
EstimateInit ==
    /\ \E bi \in KeyedTables({1}), bo \in KeyedTables(OutputKinds) :
          building_info \in BuildingInfos(Query(bi, bo))
    /\ target_resources \in UNION {[K -> 1..MaxNeed] : K \in SUBSET RecipeResources}
    /\ targets_left = DOMAIN target_resources
    /\ building_requirements = <<>>
    /\ printed = {}
    /\ max_depth = 0
    /\ pc = "estimate"
    /\ TraceIdle /\ TreeIdle /\ ValidatorIdle /\ BuildIdle /\ LaterIdle

\* lines 136-155: one target of the loop over target_resources.items(), in
\* the order the caller's dictionary happens to have
EstimateTarget ==
    /\ pc = "estimate"
    /\ \E resource \in targets_left :
         LET quantity_needed == target_resources[resource]
             hit == Producing(building_info, resource)
             need(b) == buildings_needed(quantity_needed,
                                         building_info[b].outputs[resource])
             old(b) == IF b \in DOMAIN building_requirements
                       THEN building_requirements[b] ELSE 0
         IN /\ building_requirements' =
                  [b \in DOMAIN building_requirements \cup hit |->
                      IF b \in hit THEN Accumulate(old(b), need(b)) ELSE old(b)]
            /\ printed' = printed \cup
                  {[resource |-> resource, building |-> b, need |-> need(b)] :
                     b \in hit}
            /\ targets_left' = targets_left \ {resource}
    /\ UNCHANGED <<building_info, target_resources, pc, notEstimateVars>>

\* line 157: return building_requirements
EstimateReturn ==
    /\ pc = "estimate" /\ targets_left = {}
    /\ pc' = "estimated"
    /\ UNCHANGED <<estimateVars, notEstimateVars>>

EstimateNext == EstimateTarget \/ EstimateReturn
SpecEstimate == EstimateInit /\ [][EstimateNext]_vars

\* lines 326-328: the tables main builds after building_inputs
LaterTables ==
    {"building_outputs", "building_construction", "building_maintenance"}

\* lines 326-338: create_building_inputs_table has returned, and main goes on
\* to the other three tables, whose files are taken to hold no bad row
MainContinue ==
    /\ pc = "table_done"
    /\ later_tables' = LaterTables
    /\ pc' = "main_done"
    /\ UNCHANGED <<firstVars, safetyVars, breakerVars, tableVars, sessionVars,
                   catalog, plan_result>>

\* lines 340-345: the exception of create_building_inputs_table lands in the
\* except clause of main, which prints it; the calls of lines 326-328 are
\* skipped
MainExcept ==
    /\ pc = "table_failed"
    /\ later_tables' = {}
    /\ pc' = "main_failed"
    /\ UNCHANGED <<firstVars, safetyVars, breakerVars, tableVars, sessionVars,
                   catalog, plan_result>>

MainNext == TableRow \/ TableInsert \/ MainContinue \/ MainExcept
SpecMain == TableInit /\ [][MainNext]_vars

\* --------------------------------- from the relation tables to an estimate
\* src/game_calculation/dependency_analyzer.py, lines 22-86 and 129-157
\* the tables building_inputs and building_outputs of the database
Catalogs ==
    {[inputs |-> bi, outputs |-> bo] :
        bi \in KeyedTables({1}), bo \in KeyedTables(OutputKinds)}

\* the estimator is about to be called (line 197) with the building_info
\* that build_production_graph (line 170) made of the catalog
CatalogEstimateInit ==
    /\ catalog \in Catalogs
    /\ building_info \in
          BuildingInfos(Query(catalog.inputs, catalog.outputs))
    /\ target_resources \in UNION {[K -> {2}] : K \in SUBSET RecipeResources}
    /\ targets_left = DOMAIN target_resources
    /\ building_requirements = <<>>
    /\ printed = {}
    /\ max_depth = 0
    /\ pc = "estimate"
    /\ TraceIdle /\ TreeIdle /\ ValidatorIdle /\ BuildIdle
    /\ SafetyIdle /\ BreakerIdle /\ TableIdle /\ SessionIdle
    /\ later_tables = None /\ plan_result = None

SpecCatalogEstimate == CatalogEstimateInit /\ [][EstimateNext]_vars

\* the graphs build_production_graph can return for a catalog, whatever order
\* its rows come in: each edge keeps the attributes of the row that line 66
\* added last, which may be any of the rows of that edge
BuiltGraphs(c) ==
    LET rows == Query(c.inputs, c.outputs)
        key(row) == <<row.input_resource, row.output_resource>>
        keys == {key(row) : row \in rows}
        lasts == {f \in [keys -> rows] : \A k \in keys : key(f[k]) = k}
    IN {[nodes |-> NewBuild(rows).G.nodes,
         edges |-> [k \in keys |-> add_edge(<<>>, f[k])[k]]] : f \in lasts}

\* analyze_mission_complexity has built the graph of the catalog (line 170)
\* and is about to trace a resource that line 182 found in the graph, with
\* the max_depth of line 183
CatalogTraceInit ==
    /\ catalog \in Catalogs
    /\ \E built \in BuiltGraphs(catalog) :
          /\ graph = built.edges
          /\ target_resource \in built.nodes
    /\ max_depth = 5
    /\ stack = <<Frame(target_resource, 0, <<>>)>>
    /\ visited = {}
    /\ dependencies = <<>>
    /\ returned = {}
    /\ pc = "trace"
    /\ TreeIdle /\ ValidatorIdle /\ BuildIdle /\ EstimateIdle
    /\ SafetyIdle /\ BreakerIdle /\ TableIdle /\ SessionIdle
    /\ later_tables = None /\ plan_result = None

SpecCatalogTrace == CatalogTraceInit /\ [][TraceNext]_vars

\* ------------------------------------ calls that share one graph snapshot
\* src/game_calculation/dependency_analyzer.py, lines 88-157: several calls of
\* trace_resource_dependencies and calculate_production_requirements, their
\* steps interleaved, on the graph and the building_info of one build
\* the edges the shared graphs are made of
SessionPairs == {<<"A", "B">>, <<"B", "C">>, <<"A", "C">>, <<"C", "A">>}
SessionGraphs == {g \in TraceGraphs : DOMAIN g \subseteq SessionPairs}

\* lines 73-83: the building_info build_production_graph returns with graph
\* g: the maker of each resource that has producers, every quantity one
CatalogOf(g) ==
    [b \in {Maker[e[2]] : e \in DOMAIN g} |->
        LET made == CHOOSE r \in Resources : Maker[r] = b
        IN [inputs |-> [u \in predecessors(g, made) |-> 1],
            outputs |-> [r \in {made} |-> 1],
            production_rate |-> 2, production_time |-> 30]]

\* a call of trace_resource_dependencies that has not taken a step
TraceCall(target, bound) ==
    [kind |-> "trace", target |-> target, bound |-> bound,
     stack |-> <<Frame(target, 0, <<>>)>>, visited |-> {}, dependencies |-> <<>>,
     targets |-> <<>>, left |-> {}, requirements |-> <<>>, done |-> FALSE]
\* a call of calculate_production_requirements that has not taken a step
EstimateCall(targets) ==
    [kind |-> "estimate", target |-> None, bound |-> 0,
     stack |-> <<>>, visited |-> {}, dependencies |-> <<>>,
     targets |-> targets, left |-> DOMAIN targets, requirements |-> <<>>,
     done |-> FALSE]
NewCalls ==
    {TraceCall("C", 1), TraceCall("C", 2), TraceCall("B", 2)}
    \cup {EstimateCall(q) : q \in [{"B", "C"} -> {2}] \cup [{"C"} -> {3}]}

\* each call sees the visited set of every call
CallVisitedShared(cs, i) == UNION {cs[j].visited : j \in DOMAIN cs}

\* line 93: the visited set that call i tests at line 99: the one its own
\* invocation made
CallVisited(cs, i) == cs[i].visited

\* lines 95-127: the next step of a trace call c that tests seen at line 99,
\* once for each producer the loop of line 113 may take next
TraceCallSteps(g, seen, c) ==
    IF c.stack = <<>> THEN {[c EXCEPT !.done = TRUE]}
    ELSE LET top == Head(c.stack)
             rest == Tail(c.stack)
             producers == predecessors(g, top.resource)
         IN IF top.at = "enter"
            THEN IF top.resource \in seen \/ top.depth > c.bound
                 THEN {[c EXCEPT !.stack = rest]}
                 ELSE IF producers = {}
                 THEN {[c EXCEPT !.visited = @ \cup {top.resource},
                                 !.dependencies =
                                    DepAdd(@, top.depth, <<top.resource, "raw">>),
                                 !.stack = rest]}
                 ELSE {[c EXCEPT !.visited = @ \cup {top.resource},
                                 !.stack = <<[top EXCEPT !.at = "loop",
                                                        !.producers = producers]>>
                                           \o rest]}
            ELSE IF top.producers = {} THEN {[c EXCEPT !.stack = rest]}
            ELSE {[c EXCEPT
                     !.dependencies =
                        DepAdd(@, top.depth,
                               <<top.resource,
                                 get_edge_data(g, p, top.resource).building>>),
                     !.stack = <<Frame(p, top.depth + 1,
                                       Append(top.path, top.resource)),
                                 [top EXCEPT !.producers = Remaining(@, p)]>>
                               \o rest] : p \in top.producers}

\* lines 136-157: the next step of an estimate call c, once for each target
\* the loop of line 136 may take next
EstimateCallSteps(info, c) ==
    IF c.left = {} THEN {[c EXCEPT !.done = TRUE]}
    ELSE {LET hit == Producing(info, resource)
              need(b) == buildings_needed(c.targets[resource],
                                          info[b].outputs[resource])
              old(b) == IF b \in DOMAIN c.requirements THEN c.requirements[b]
                        ELSE 0
          IN [c EXCEPT !.requirements =
                          [b \in DOMAIN c.requirements \cup hit |->
                              IF b \in hit THEN Accumulate(old(b), need(b))
                              ELSE old(b)],
                       !.left = @ \ {resource}] : resource \in c.left}

\* a build has returned its graph and building_info, and up to MaxCalls calls
\* on them have begun
SessionInit ==
    /\ \E g \in SessionGraphs :
          snapshot = [graph |-> g, building_info |-> CatalogOf(g)]
    /\ calls \in UNION {[1..n -> NewCalls] : n \in 1..MaxCalls}
    /\ pc = "calls"
    /\ FirstIdle /\ SafetyIdle /\ BreakerIdle /\ TableIdle /\ LastIdle

\* a trace call takes its next step
TraceCallStep ==
    /\ pc = "calls"
    /\ \E i \in DOMAIN calls :
         /\ calls[i].kind = "trace" /\ ~calls[i].done
         /\ \E next \in TraceCallSteps(snapshot.graph, CallVisited(calls, i),
                                       calls[i]) :
               calls' = [calls EXCEPT ![i] = next]
    /\ UNCHANGED <<snapshot, pc, notSessionVars>>

\* an estimate call takes its next step
EstimateCallStep ==
    /\ pc = "calls"
    /\ \E i \in DOMAIN calls :
         /\ calls[i].kind = "estimate" /\ ~calls[i].done
         /\ \E next \in EstimateCallSteps(snapshot.building_info, calls[i]) :
               calls' = [calls EXCEPT ![i] = next]
    /\ UNCHANGED <<snapshot, pc, notSessionVars>>

SessionNext == TraceCallStep \/ EstimateCallStep
SpecSession == SessionInit /\ [][SessionNext]_vars

\* ------------------------------------------------ CalculationSafetyChecker
\* the building types a save game and a calculation may name
SafetyTypes == {"Well", "Bakery", "Mill"}
\* the node lists of a save game, by what the loop of lines 38-40 counts: how
\* many nodes carry each name
NodeCounts == [SafetyTypes -> 0..MaxObserved]
\* save_file_path: no file there, a file that json.load refuses, a file that
\* holds a JSON array and not an object, or a save game
SaveFiles ==
    {[kind |-> k, nodes |-> [t \in SafetyTypes |-> 0]] :
        k \in {"missing", "unreadable", "array"}}
    \cup {[kind |-> "save", nodes |-> n] : n \in NodeCounts}

\* the floats of lines 60-62, as exact fractions
Ratio(n, d) == [num |-> n, den |-> d]
\* int(limit * ratio) of lines 76, 83 and 112: the product is rounded to the
\* nearest double, which falls on the same side of every integer as the exact
\* product does for the limits an int can hold here, and int() drops the
\* fraction of the non-negative result
IntOfProduct(limit, ratio) == (limit * ratio.num) \div ratio.den

\* lines 38-39: building_counts, a defaultdict(int) that has a key for the
\* names met only
building_counts(nodes) ==
    [t \in {u \in DOMAIN nodes : nodes[u] > 0} |-> nodes[t]]
RECURSIVE SumOver(_, _)
SumOver(f, S) ==
    IF S = {} THEN 0
    ELSE LET x == CHOOSE y \in S : TRUE IN f[x] + SumOver(f, S \ {x})

\* lines 60-64: the thresholds every checker gets
Thresholds ==
    [warning_threshold |-> Ratio(4, 5), error_threshold |-> 1,
     building_type_multiplier |-> Ratio(3, 1)]
\* lines 50-57: the bounds of a checker that has drawn none from a save game
DefaultBounds ==
    [max_buildings_per_type |-> <<>>, total_buildings |-> 2000,
     max_production_rate |-> 1000, max_calculation_depth |-> 10,
     max_calculation_time |-> 30, max_iterations |-> 1000]
\* f.update(g) of two dictionaries
Update(f, g) ==
    [k \in DOMAIN f \cup DOMAIN g |-> IF k \in DOMAIN g THEN g[k] ELSE f[k]]

\* lines 25-67: load_safety_bounds; of an array line 42 stores the empty
\* counts and line 43 raises, to be caught by line 47, and what is stored
\* keeps line 50 from filling in the defaults
load_safety_bounds(file) ==
    LET drawn == [max_buildings_per_type |-> building_counts(file.nodes),
                  total_buildings |-> SumOver(file.nodes, DOMAIN file.nodes)]
        filled == IF file.kind = "save" THEN drawn
                  ELSE IF file.kind = "array"
                  THEN [max_buildings_per_type |-> building_counts(file.nodes)]
                  ELSE DefaultBounds
    IN Update(filled, Thresholds)

\* the limit that ignores what the save game shows
GetLimitFlat(bounds, building_type) == 50

\* lines 69-78: get_building_safety_limit
get_building_safety_limit(bounds, building_type) ==
    LET per_type == bounds.max_buildings_per_type
        actual_count ==
            IF building_type \in DOMAIN per_type THEN per_type[building_type]
            ELSE 0
    IN IF actual_count > 0
       THEN IntOfProduct(actual_count, bounds.building_type_multiplier)
       ELSE 50

\* what a check_ method hands back: a status, or the exception it raised
Status(s) == [status |-> s, raised |-> None]
Raised(x) == [status |-> None, raised |-> x]

\* lines 94-107 and 114-127: the comparison both count checks make
Against(count, limit, warning_level) ==
    IF count > limit THEN Status("ERROR")
    ELSE IF count > warning_level THEN Status("WARNING")
    ELSE Status("OK")

\* the check that reports a count equal to its limit as an error
CheckCountErrorAtLimit(bounds, building_type, calculated_count) ==
    LET limit == get_building_safety_limit(bounds, building_type)
        warning_level == IntOfProduct(limit, bounds.warning_threshold)
    IN Against(calculated_count + 1, limit, warning_level + 1)

\* lines 80-107: check_building_count
check_building_count(bounds, building_type, calculated_count) ==
    LET limit == get_building_safety_limit(bounds, building_type)
        warning_level == IntOfProduct(limit, bounds.warning_threshold)
    IN Against(calculated_count, limit, warning_level)

\* lines 109-127: check_total_buildings; line 111 reads a key that the bounds
\* drawn from an array lack
check_total_buildings(bounds, total_count) ==
    IF "total_buildings" \notin DOMAIN bounds THEN Raised("KeyError")
    ELSE LET limit == bounds.total_buildings
             warning_level == IntOfProduct(limit, bounds.warning_threshold)
         IN Against(total_count, limit, warning_level)

\* lines 129-146: check_production_rate; line 131 reads a key that only the
\* default bounds have, and max_rate * 0.5 is exact
check_production_rate(bounds, resource_name, rate_per_minute) ==
    IF "max_production_rate" \notin DOMAIN bounds THEN Raised("KeyError")
    ELSE LET max_rate == bounds.max_production_rate
         IN IF rate_per_minute > max_rate THEN Status("ERROR")
            ELSE IF 2 * rate_per_minute > max_rate THEN Status("WARNING")
            ELSE Status("OK")

\* the numbers a check is asked about: the small ones, and those on either
\* side of the default limits and of their warning levels
Around(n) == {n - 1, n, n + 1}
Counts == 0..MaxCount
Totals ==
    Counts \cup Around(DefaultBounds.total_buildings)
        \cup Around(IntOfProduct(DefaultBounds.total_buildings, Ratio(4, 5)))
Rates ==
    0..MaxObserved \cup Around(DefaultBounds.max_production_rate)
        \cup Around(DefaultBounds.max_production_rate \div 2)

\* a call of a check_ method, with what came of it
Call(method, args, result) ==
    [method |-> method, args |-> args, status |-> result.status,
     raised |-> result.raised]

\* a CalculationSafetyChecker is about to be constructed (line 23)
SafetyInit ==
    /\ save_file \in SaveFiles
    /\ safety_bounds = None
    /\ check_result = Call("none", <<>>, Status(None))
    /\ pc = "load"
    /\ FirstIdle /\ BreakerIdle /\ TableIdle /\ SessionIdle /\ LastIdle

\* line 23: self.load_safety_bounds()
LoadSafetyBounds ==
    /\ pc = "load"
    /\ safety_bounds' = load_safety_bounds(save_file)
    /\ pc' = "checking"
    /\ UNCHANGED <<save_file, check_result, notSafetyVars>>

CheckBuildingCount ==
    /\ pc = "checking"
    /\ \E building_type \in SafetyTypes, calculated_count \in Counts :
         check_result' =
            Call("check_building_count", <<building_type, calculated_count>>,
                 check_building_count(safety_bounds, building_type,
                                      calculated_count))
    /\ UNCHANGED <<save_file, safety_bounds, pc, notSafetyVars>>

CheckTotalBuildings ==
    /\ pc = "checking"
    /\ \E total_count \in Totals :
         check_result' =
            Call("check_total_buildings", <<total_count>>,
                 check_total_buildings(safety_bounds, total_count))
    /\ UNCHANGED <<save_file, safety_bounds, pc, notSafetyVars>>

CheckProductionRate ==
    /\ pc = "checking"
    /\ \E resource_name \in {"Water"}, rate_per_minute \in Rates :
         check_result' =
            Call("check_production_rate", <<resource_name, rate_per_minute>>,
                 check_production_rate(safety_bounds, resource_name,
                                       rate_per_minute))
    /\ UNCHANGED <<save_file, safety_bounds, pc, notSafetyVars>>

SafetyNext ==
    \/ LoadSafetyBounds
    \/ CheckBuildingCount
    \/ CheckTotalBuildings
    \/ CheckProductionRate
SpecSafety == SafetyInit /\ [][SafetyNext]_vars

\* the building counts a calculation may come to, one for each type, up to
\* the largest limit a type can have in the save games tried
PlanCounts == [SafetyTypes -> 0..(3 * MaxObserved)]

\* one calculation is checked: every type's count by check_building_count and
\* the sum of the counts by check_total_buildings
CheckPlan ==
    /\ pc = "checking"
    /\ \E counts \in PlanCounts :
         plan_result' =
            [counts |-> counts,
             per_type |-> [t \in SafetyTypes |->
                             check_building_count(safety_bounds, t, counts[t])],
             total |-> check_total_buildings(safety_bounds,
                                             SumOver(counts, SafetyTypes))]
    /\ pc' = "planned"
    /\ UNCHANGED <<firstVars, safetyVars, breakerVars, tableVars, sessionVars,
                   catalog, later_tables>>

PlanNext == LoadSafetyBounds \/ CheckPlan
SpecPlan == SafetyInit /\ [][PlanNext]_vars

\* ------------------------------------------------------------ properties
Range(s) == {s[i] : i \in DOMAIN s}

\* the entries of the returned dependencies, as <<depth, resource, tag>>
Entries ==
    UNION {{<<d, e[1], e[2]>> : e \in dependencies[d]} : d \in DOMAIN dependencies}
EntriesAt(d) == IF d \in DOMAIN dependencies THEN dependencies[d] ELSE {}

\* a call refused because its resource is already on its own ancestor path
OnOwnPath(r) == r.resource \in Range(r.path)
\* a call refused by the depth bound alone: the resource was never expanded
CutByDepth(r) == ~r.seen /\ r.depth > max_depth

\* C1: on every finite graph, cyclic or not, for every target and every
\* max_depth >= 0 the trace terminates and returns its dependencies.
C1_TraceTerminates == <>(pc = "done")

\* a trace that met both a cycle and the depth bound has returned
C1_Witness ==
    /\ pc = "done"
    /\ \E r \in returned : OnOwnPath(r)
    /\ \E r \in returned : CutByDepth(r)

\* every node of a tree that build_supply_chain_tree returned
RECURSIVE TreeNodes(_)
TreeNodes(t) == {t} \cup UNION {TreeNodes(c) : c \in t.inputs}

\* C2: the trace of a resource without producers returns exactly one entry:
\* the resource itself, at depth 0, tagged raw.
C2_RawIsSingleNode ==
    (pc = "done" /\ ~\E u \in Resources : <<u, target_resource>> \in DOMAIN graph)
        => dependencies = (0 :> {<<target_resource, "raw">>})

\* a raw target that other resources are made of has been traced
C2_Witness ==
    /\ pc = "done"
    /\ ~\E u \in Resources : <<u, target_resource>> \in DOMAIN graph
    /\ \E v \in Resources \ {target_resource} : <<target_resource, v>> \in DOMAIN graph
    /\ dependencies # <<>>

\* C3: whatever the depth of the chain behind the target, no node of the
\* result of either tracer lies deeper than max_depth.
C3_DepthBounded ==
    /\ \A d \in DOMAIN dependencies : d <= max_depth
    /\ pc = "tree_done" => \A n \in TreeNodes(chain_tree) : n.depth <= max_depth

\* a chain deeper than the bound was traced down to the bound and cut there
C3_Witness ==
    /\ pc = "done"
    /\ max_depth >= 1
    /\ EntriesAt(max_depth) # {}
    /\ \E r \in returned : CutByDepth(r)

\* C4: a trace cut off by the depth bound marks every boundary node with
\* MAX_DEPTH_REACHED, so that its result differs from a complete one.
C4_TruncationMarked ==
    pc = "done" =>
        \A r \in returned :
            CutByDepth(r) =>
                <<r.path[Len(r.path)], "MAX_DEPTH_REACHED">> \in EntriesAt(max_depth)

\* C5: every branch that comes back to a resource of its own ancestor path
\* ends in a CYCLE_DETECTED entry for that resource at the depth of the revisit.
C5_CycleMarked ==
    pc = "done" =>
        \A r \in returned :
            OnOwnPath(r) => <<r.resource, "CYCLE_DETECTED">> \in EntriesAt(r.depth)

\* resource x goes into some building that puts out resource y
Feeds(x, y) ==
    \E b \in BuildingIds, i, o \in DOMAIN resources :
        /\ <<b, i>> \in building_inputs /\ <<b, o>> \in building_outputs
        /\ resources[i].name = x /\ resources[o].name = y

Names == {resources[i].name : i \in DOMAIN resources}

\* the resources reached from x along one or more production steps
RECURSIVE ReachedFrom(_, _)
ReachedFrom(S, n) ==
    IF n = 0 THEN S
    ELSE ReachedFrom(S \cup {y \in Names : \E x \in S : Feeds(x, y)}, n - 1)
DependsOnItself(x) ==
    x \in ReachedFrom({y \in Names : Feeds(x, y)}, Cardinality(Names))

\* a closed chain of distinct resources, each feeding the next
ClosedChain(s) ==
    /\ \A i, j \in 1..Len(s) : i # j => s[i] # s[j]
    /\ \A i \in 1..Len(s) : Feeds(s[i], s[(i % Len(s)) + 1])

\* C6: the cycle pass reports every simple cycle of the production graph
\* once, whatever node it is written from, reports only such cycles, and
\* reports none exactly when no resource depends on itself.
C6_CyclesReportedOnce ==
    pc = "validated" =>
        /\ \A i \in DOMAIN cycles : ClosedChain(cycles[i])
        /\ \A s \in DistinctSeqs(Names) :
              ClosedChain(s) =>
                Cardinality({i \in DOMAIN cycles : cycles[i] \in Rotations(s)}) = 1
        /\ (cycles = <<>>) <=> ~\E x \in Names : DependsOnItself(x)

\* the catalog whose only cycle is A -> B -> C -> A: one report, {A, B, C}
C6_Witness ==
    /\ pc = "validated"
    /\ Len(cycles) = 1
    /\ SeqRange(cycles[1]) = {"A", "B", "C"}
    /\ Feeds("A", "B") /\ Feeds("B", "C") /\ Feeds("C", "A")

\* C7: two builds from the same rows, taken in whatever orders, end with the
\* same nodes and the same set of edges.
C7_EdgeSetsEqual ==
    pc = "built" =>
        /\ DOMAIN builds[1].G.edges = DOMAIN builds[2].G.edges
        /\ builds[1].G.nodes = builds[2].G.nodes

\* two builds whose row orders differed enough to leave different attributes
C7_Witness ==
    /\ pc = "built"
    /\ builds[1].G.edges # builds[2].G.edges
    /\ DOMAIN builds[1].G.edges # {}

\* the smallest number of buildings whose outputs of o each reach q
CeilOfQuotient(q, o) == (q + o - 1) \div o

\* the resource is the one target and the building its only producer, with
\* nothing else coming out of it
OnlyProducer(b, x) ==
    /\ DOMAIN target_resources = {x}
    /\ \A c \in DOMAIN building_info :
          x \in DOMAIN building_info[c].outputs <=> c = b
    /\ DOMAIN building_info[b].outputs = {x}
    /\ building_info[b].production_rate > 0

\* C8: for a target whose only producer yields r a minute, a desired rate d
\* that is a multiple of r gives that building the count d / r, however r
\* splits into quantity per cycle and cycle time.
C8_CountIsRateQuotient ==
    pc = "estimated" =>
        \A b \in DOMAIN building_info, x \in DOMAIN target_resources :
            (OnlyProducer(b, x)
               /\ target_resources[x] % building_info[b].production_rate = 0)
            => /\ b \in DOMAIN building_requirements
               /\ building_requirements[b] =
                     target_resources[x] \div building_info[b].production_rate

\* C9: every per-target requirement is ceil(q / o): it rounds up.
C9_RequirementIsCeiling ==
    \A p \in (IF pc \in {"estimate", "estimated"} THEN printed ELSE {}) :
        p.need = CeilOfQuotient(target_resources[p.resource],
                                building_info[p.building].outputs[p.resource])

\* the per-target requirements printed for a building
NeedsOf(b) == {p.need : p \in {x \in printed : x.building = b}}

\* C10: the count returned for a building is the largest of its per-target
\* requirements, not their sum, in whatever order the targets were taken.
C10_CountIsMaximum ==
    pc = "estimated" =>
        /\ DOMAIN building_requirements = {p.building : p \in printed}
        /\ \A b \in DOMAIN building_requirements :
              /\ building_requirements[b] \in NeedsOf(b)
              /\ \A n \in NeedsOf(b) : n <= building_requirements[b]

\* one building made two targets, which asked for different numbers of it
C10_Witness ==
    /\ pc = "estimated"
    /\ \E b \in DOMAIN building_requirements : Cardinality(NeedsOf(b)) = 2

\* the latest check was check_building_count of type t and count c
CountChecked(t, c) ==
    /\ check_result.method = "check_building_count"
    /\ check_result.args = <<t, c>>
\* how many nodes of type t the save game shows; none without a save game
Observed(t) == IF save_file.kind = "save" THEN save_file.nodes[t] ELSE 0
\* the limit the specification gives type t: three times what was observed,
\* a flat 50 when nothing was
SpecLimit(t) == IF Observed(t) > 0 THEN 3 * Observed(t) ELSE 50

\* C12: check_building_count returns ERROR exactly when the count is above
\* the limit, WARNING exactly when it is above 0.8 times the limit and not
\* above the limit, and OK otherwise; the limit is 3.0 times the observed
\* count of the type, and 50 for a type that was not observed.
C12_StatusByLimit ==
    \A t \in SafetyTypes, c \in Counts :
        CountChecked(t, c) =>
            /\ check_result.raised = None
            /\ check_result.status = "ERROR" <=> c > SpecLimit(t)
            /\ check_result.status = "WARNING" <=>
                  (5 * c > 4 * SpecLimit(t) /\ c <= SpecLimit(t))
            /\ check_result.status = "OK" <=> 5 * c <= 4 * SpecLimit(t)

\* a type observed in the save game was found in the warning band of its own
\* limit, with another type of the same save game unobserved
C12_Witness ==
    \E t \in SafetyTypes, c \in Counts :
        /\ CountChecked(t, c)
        /\ Observed(t) > 0
        /\ check_result.status = "WARNING"
        /\ \E u \in SafetyTypes : Observed(u) = 0

\* C13 as stated: check_building_count returns WARNING exactly when the
\* count lies in the closed interval from 0.8 times the limit to the limit,
\* so that exactly 40 against a limit of 50 is a warning.
C13_WarningOnClosedInterval ==
    \A t \in SafetyTypes, c \in Counts :
        CountChecked(t, c) =>
            (check_result.status = "WARNING" <=>
                (5 * c >= 4 * SpecLimit(t) /\ c <= SpecLimit(t)))

\* C13, amended: check_building_count returns WARNING exactly when the count
\* is above 0.8 times the limit and at most the limit: a count of exactly the
\* limit is a warning, not an error, and a count of exactly 0.8 times the
\* limit, 40 against 50, is still OK.
C13_WarningAboveLevel ==
    \A t \in SafetyTypes, c \in Counts :
        CountChecked(t, c) =>
            /\ check_result.status = "WARNING" <=>
                  (5 * c > 4 * SpecLimit(t) /\ c <= SpecLimit(t))
            /\ c = SpecLimit(t) => check_result.status = "WARNING"
            /\ 5 * c = 4 * SpecLimit(t) => check_result.status = "OK"

\* a count of exactly 0.8 times its limit has been checked
C13_Witness ==
    \E t \in SafetyTypes, c \in Counts :
        /\ CountChecked(t, c)
        /\ 5 * c = 4 * SpecLimit(t)
        /\ check_result.status = "OK"

\* C14: once the bounds are derived, from a save game or from the defaults,
\* every threshold a check reads is defined: check_production_rate,
\* check_total_buildings and check_building_count return a status for every
\* input and never fail.
C14_ChecksNeverFail ==
    check_result.method # "none" =>
        /\ check_result.raised = None
        /\ check_result.status \in {"OK", "WARNING", "ERROR"}

\* lines 134-157: what the dictionary the estimator returns holds for a
\* building next to its count; it maps a building name to an int, no more
status_returned(requirements, b) == None

\* C11: every building count the estimator returns comes with the status
\* check_building_count gives it under the bounds in force; no count is
\* returned without its status.
C11_CountsCarryStatus ==
    pc = "estimated" =>
        \E file \in SaveFiles :
            \A b \in DOMAIN building_requirements :
                status_returned(building_requirements, b) =
                    check_building_count(load_safety_bounds(file), b,
                                         building_requirements[b]).status

\* building b has a resource both in its input list and in its output list
SharesAResource(b) ==
    \E i \in building_inputs, o \in building_outputs :
        i[1] = b /\ o[1] = b /\ i[2] = o[2]
\* the entries the self-consumer list has for building b
SelfConsumerRows(b) == {row \in self_consumers : row.building = b}

\* C15: a building with a resource in both its input list and its output
\* list appears exactly once in the self-consumer list, however many
\* resources it shares; a building that shares none never appears.
C15_SelfConsumerOnce ==
    pc = "detected" =>
        \A b \in BuildingIds :
            Cardinality(SelfConsumerRows(b)) =
                IF SharesAResource(b) THEN 1 ELSE 0

\* the rows of inputs.csv that name a building of the catalog
KnownBuildingRows ==
    {i \in DOMAIN rel_rows :
        <<rel_rows[i].building_name, rel_rows[i].map_name>>
            \in DOMAIN BuildingLookup}
\* whether the resource a row names is in the catalog
KnownResource(row) ==
    <<row.input_resource, row.map_name>> \in DOMAIN ResourceLookup
\* the warnings on record that name the resource of a row
ResourceWarnings(row) ==
    {w \in table_printed :
        /\ w.warning = "Missing resources"
        /\ <<row.input_resource, row.map_name>> \in w.keys}
\* the relation a row with a known building and resource stands for
RelationOf(row) ==
    <<BuildingLookup[<<row.building_name, row.map_name>>],
      ResourceLookup[<<row.input_resource, row.map_name>>]>>
\* the relations of the finished table
TableRelations == {<<t[1], t[2]>> : t \in inputs_table}

\* C16: when a row of a catalog building names a resource that is absent
\* from the catalog, the build records exactly one warning for it and leaves
\* the relation out, and it still processes every other row: every relation
\* whose building and resource are both in the catalog is in the result.
C16_MissingResourceSkipped ==
    pc \in {"table_done", "table_failed"} =>
        \A i \in KnownBuildingRows :
            IF KnownResource(rel_rows[i])
            THEN RelationOf(rel_rows[i]) \in TableRelations
            ELSE Cardinality(ResourceWarnings(rel_rows[i])) = 1

\* C18: the cycle guard of the trace is per ancestor path: a call within the
\* depth bound is refused only when its resource lies on its own ancestor
\* path, so a resource reached along two sibling branches is expanded under
\* both.
C18_GuardIsPerPath ==
    \A r \in returned : r.depth <= max_depth => OnOwnPath(r)

\* C20: the result of a trace is a function of the graph, the target and the
\* bound: whatever order the producers are taken in, the trace returns what
\* every other order returns.
C20_OrderIndependent ==
    pc = "done" =>
        trace_resource_dependencies(graph, target_resource, max_depth)
            = {dependencies}

\* the contributors an edge of a built graph carries: its attribute
\* dictionary names one building with that building's quantities and rate
Contributors(edge) ==
    {[building |-> edge.building, input_qty |-> edge.input_qty,
      output_qty |-> edge.output_qty, rate |-> edge.production_rate]}

\* C19: when several buildings consume I and produce O, the edge from I to O
\* carries every one of them with its own input quantity, output quantity
\* and rate; a later contributor never replaces an earlier one.
C19_EdgeKeepsAllBuildings ==
    pc = "built" =>
        \A k \in DOMAIN builds, row \in production_data :
            [building |-> row.building_name, input_qty |-> row.input_qty,
             output_qty |-> row.output_qty, rate |-> row.output_per_minute]
                \in Contributors(builds[k].G.edges[<<row.input_resource,
                                                     row.output_resource>>])

\* what calculate_production_requirements returns for the targets when it is
\* the only call running: for each building that makes a target, the largest
\* count any of its targets asks for
EstimateAlone(info, targets) ==
    LET makers == UNION {Producing(info, x) : x \in DOMAIN targets}
        needs(b) == {buildings_needed(targets[x], info[b].outputs[x]) :
                        x \in {y \in DOMAIN targets : b \in Producing(info, y)}}
    IN [b \in makers |-> CHOOSE n \in needs(b) : \A m \in needs(b) : m <= n]

\* call i has returned what it can return when it runs alone
ReturnsAsAlone(i) ==
    IF calls[i].kind = "trace"
    THEN calls[i].dependencies \in
            trace_resource_dependencies(snapshot.graph, calls[i].target,
                                        calls[i].bound)
    ELSE calls[i].requirements =
            EstimateAlone(snapshot.building_info, calls[i].targets)

\* C17: however the steps of the trace and estimate calls on one snapshot
\* interleave, no step changes the graph or the building catalog, and every
\* call returns what it returns when it runs alone.
C17_CallsDoNotInterfere ==
    /\ [](\A i \in DOMAIN calls : calls[i].done => ReturnsAsAlone(i))
    /\ [][snapshot' = snapshot]_vars

\* two traces that visited a common resource, one deeper than the other, and
\* an estimate have all returned
C17_Witness ==
    /\ \A i \in DOMAIN calls : calls[i].done
    /\ \E i, j \in DOMAIN calls :
         /\ calls[i].kind = "trace" /\ calls[j].kind = "trace"
         /\ calls[i].bound < calls[j].bound
         /\ calls[i].visited \cap calls[j].visited # {}
         /\ DOMAIN calls[i].dependencies # DOMAIN calls[j].dependencies

\* the iteration budgets the bounds may grant a trace: max_iterations of
\* calculation_safety.py line 56, on the scale of the graphs tried here
IterationBudgets == 1..MaxBudget
\* the expansions a trace has made: each one puts its resource into visited
\* (line 102), and line 99 lets no resource in twice
Expansions == Cardinality(visited)

\* C21: within one trace call the number of node expansions never exceeds
\* the iteration budget: whatever budget the bounds grant, the call stops
\* expanding when it is used up and marks what is left BUDGET_EXCEEDED.
C21_BudgetRespected ==
    \A budget \in IterationBudgets : Expansions <= budget

\* C22: for every target resource the estimate has an entry for every
\* building of the catalog that outputs the resource, buildings without any
\* input among them.
C22_EveryProducerEstimated ==
    pc = "estimated" =>
        \A x \in DOMAIN target_resources, b \in RecipeBuildings :
            <<b, x>> \in DOMAIN catalog.outputs
                => b \in DOMAIN building_requirements

\* some building of the catalog outputs resource x
HasProducer(x) == \E b \in RecipeBuildings : <<b, x>> \in DOMAIN catalog.outputs

\* C23: the trace marks a resource raw if and only if no building of the
\* catalog outputs it; a resource that some building outputs, be it a
\* building without inputs, is never marked raw.
C23_RawIffNoProducer ==
    pc = "done" => \A e \in Entries : e[3] = "raw" <=> ~HasProducer(e[2])

\* no row of building_inputs or building_outputs names the resource of row i
\* of the resources table
InNoRecipe(i) ==
    \A b \in BuildingIds :
        <<b, i>> \notin building_inputs /\ <<b, i>> \notin building_outputs

\* C24: resources are nodes keyed by name and region: the resources of the
\* table are as many nodes, and a resource that no recipe of its own region
\* names has no edge, whatever recipes name a resource of that name
\* elsewhere: it is classified isolated.
C24_NodesKeyedByRegion ==
    pc = "validated" =>
        /\ Len(G.nodes) = Len(resources)
        /\ \A i \in DOMAIN resources :
              InNoRecipe(i) => resources[i].name \in SeqRange(isolated_resources)

\* the graph has an edge into the node named n, and one out of it
HasProducerEdge(n) == \E e \in G.edges : e[2] = n
HasConsumerEdge(n) == \E e \in G.edges : e[1] = n

\* C25: every resource of the catalog is listed as isolated iff its node has
\* neither a producer nor a consumer edge, as a raw material iff it has a
\* consumer edge and no producer edge, and in neither list iff it has a
\* producer edge; none is in both lists.
C25_ClassifiedConsistently ==
    pc = "validated" =>
        \A i \in DOMAIN resources :
            LET n == resources[i].name
                isolated == n \in SeqRange(isolated_resources)
                raw == n \in SeqRange(no_producers)
            IN /\ isolated <=> (~HasProducerEdge(n) /\ ~HasConsumerEdge(n))
               /\ raw <=> (HasConsumerEdge(n) /\ ~HasProducerEdge(n))
               /\ (~isolated /\ ~raw) <=> HasProducerEdge(n)
               /\ ~(isolated /\ raw)

\* a catalog with one resource of each kind has been classified: isolated,
\* raw material, and produced
C25_Witness ==
    /\ pc = "validated"
    /\ isolated_resources # <<>> /\ no_producers # <<>>
    /\ \E i \in DOMAIN resources : HasProducerEdge(resources[i].name)

\* the rows of inputs.csv whose building and resource are in the catalog
KnownRows == {i \in KnownBuildingRows : KnownResource(rel_rows[i])}

\* C26: building a relationship table never aborts because of one bad row:
\* whatever rows come in, rows that repeat a (building, resource) pair with
\* the same or another quantity among them, the build completes, keeps one
\* relation for each pair, and the tables after it are built.
C26_BuildNeverAborts ==
    pc \in {"main_done", "main_failed"} =>
        /\ table_raised = None
        /\ \A i \in KnownRows :
              Cardinality({t \in inputs_table :
                              <<t[1], t[2]>> = RelationOf(rel_rows[i])}) = 1
        /\ later_tables = LaterTables

\* the resources of the graph a trace runs on, its target among them
GraphResources ==
    {e[1] : e \in DOMAIN graph} \cup {e[2] : e \in DOMAIN graph}
        \cup {target_resource}
\* a step in which a call of dfs_dependencies gets past line 100
ExpansionStep ==
    /\ stack # <<>> /\ Head(stack).at = "enter"
    /\ stack' # stack /\ returned' = returned

\* C27: within one call of the trace every resource is expanded at most
\* once: the visited set only grows, an expansion puts a resource into it
\* that was not there, there are no more expansions than resources in the
\* graph, and each resource is recorded at one depth only.
C27_ExpandedOnce ==
    /\ [](/\ Cardinality(visited) <= Cardinality(GraphResources)
          /\ \A e, f \in Entries : e[2] = f[2] => e[1] = f[1]
          /\ pc = "done" => \A r \in visited : \E e \in Entries : e[2] = r)
    /\ [][/\ visited \subseteq visited'
          /\ ExpansionStep =>
                /\ Head(stack).resource \notin visited
                /\ visited' = visited \cup {Head(stack).resource}]_vars

\* a trace has returned in which a resource came up a second time, within
\* the bound and off its own path, and was not expanded again
C27_Witness ==
    /\ pc = "done"
    /\ \E r \in returned : r.seen /\ r.depth <= max_depth /\ ~OnOwnPath(r)

\* the resources within k producer steps of the target
RECURSIVE Within(_)
Within(k) ==
    IF k = 0 THEN {target_resource}
    ELSE Within(k - 1)
            \cup {u \in Resources : \E v \in Within(k - 1) : <<u, v>> \in DOMAIN graph}

\* C28: the trace is complete within its bound: every resource whose
\* shortest producer path from the target has at most max_depth steps is in
\* the returned dependencies, in whatever order the producers are taken.
C28_CompleteWithinBound ==
    pc = "done" =>
        \A r \in Within(max_depth) : \E e \in Entries : e[2] = r

\* building b has a positive rate and target x among its outputs
MakesTarget(b, x) ==
    /\ x \in DOMAIN target_resources
    /\ x \in DOMAIN building_info[b].outputs
    /\ building_info[b].production_rate > 0

\* C29: every count the estimator returns is an integer of at least one: a
\* building of positive rate whose targets all ask for less than it puts
\* out gets the count 1, not 0, and a building that makes no target gets no
\* entry.
C29_CountAtLeastOne ==
    pc = "estimated" =>
        /\ \A b \in DOMAIN building_requirements :
              /\ building_requirements[b] \in Nat \ {0}
              /\ \E x \in RecipeResources : MakesTarget(b, x)
        /\ \A b \in DOMAIN building_info :
              ((\E x \in RecipeResources : MakesTarget(b, x))
                 /\ \A x \in RecipeResources :
                       MakesTarget(b, x) =>
                          target_resources[x] < building_info[b].outputs[x])
              => (b \in DOMAIN building_requirements
                    /\ building_requirements[b] = 1)

\* an estimate in which one building was asked for less than it puts out and
\* another made no target
C29_Witness ==
    /\ pc = "estimated"
    /\ \E b \in DOMAIN building_info, x \in RecipeResources :
          /\ MakesTarget(b, x)
          /\ target_resources[x] < building_info[b].outputs[x]
          /\ building_requirements[b] = 1
    /\ \E b \in DOMAIN building_info : b \notin DOMAIN building_requirements

\* C30: the per-type checks and the total check of bounds drawn from a save
\* game agree: when no type's count is an ERROR for check_building_count,
\* the sum of the counts is no ERROR for check_total_buildings.
C30_TotalAgreesWithTypes ==
    (pc = "planned" /\ save_file.kind = "save") =>
        ((\A t \in SafetyTypes : plan_result.per_type[t].status # "ERROR")
            => plan_result.total.status # "ERROR")

====
